---- MODULE Spec2Model ----
(***************************************************************************)
(* A model of the rsa_research toolkit: the number-theoretic utilities     *)
(* (utils.py) and the attacks built on them (attacks/*.py).                *)
(*                                                                         *)
(* Every function of the toolkit is a synchronous call on integers.  A     *)
(* call is modelled as a frame: the function called (fn), its arguments    *)
(* (args), its local variables while it runs (loc), its position (pc) and  *)
(* what it returned or raised (ret).  Loop-free helpers and helpers whose  *)
(* loops only compute a value are operators; the budgeted searches         *)
(* (fermat_factor, pollard_rho) run one loop iteration per step.           *)
(* There is one specification per function under study.                    *)
(***************************************************************************)
EXTENDS Integers, Sequences, FiniteSets, TLC

VARIABLES fn, args, loc, pc, ret

vars == <<fn, args, loc, pc, ret>>

(***************************************************************************)
(* Outcomes of a call.  Python's `return v`, `return None` and             *)
(* `raise ValueError(msg)`; val carries the returned integers, or the      *)
(* integers the error message names.                                       *)
(***************************************************************************)
Value(v) == [kind |-> "value", msg |-> "", val |-> <<v>>]

Pair(p, q) == [kind |-> "value", msg |-> "", val |-> <<p, q>>]

None == [kind |-> "None", msg |-> "", val |-> <<>>]

ValueError(m, v) == [kind |-> "ValueError", msg |-> m, val |-> v]

Pending == [kind |-> "pending", msg |-> "", val |-> <<>>]

NoLocals == [none |-> 0]

(***************************************************************************)
(* Python integer arithmetic: // floors, and % takes the divisor's sign.   *)
(***************************************************************************)
FloorDiv(a, b) == IF b > 0 THEN a \div b ELSE (-a) \div (-b)

Mod(a, b) == a - b * FloorDiv(a, b)

Abs(a) == IF a < 0 THEN -a ELSE a

Min(a, b) == IF a <= b THEN a ELSE b

RECURSIVE Pow(_, _)
Pow(b, k) == IF k = 0 THEN 1 ELSE b * Pow(b, k - 1)

\* (a * b) % n for 0 <= a, b < n < 2^20, with b split in two so that every
\* intermediate product stays below 2^31
MulMod(a, b, n) == ((((a * (b \div 1024)) % n) * 1024) + a * (b % 1024)) % n

\* pow(b, k, n) for k >= 0 and n >= 1, by squaring
RECURSIVE PowMod(_, _, _)
PowMod(b, k, n) ==
    IF k = 0 THEN 1 % n
    ELSE LET half == PowMod(b, k \div 2, n)
         IN  IF half = 0 THEN 0
             ELSE MulMod(MulMod(half, half, n), IF k % 2 = 1 THEN b % n ELSE 1 % n, n)

\* int.bit_length() of n >= 0
RECURSIVE BitLength(_)
BitLength(n) == IF n = 0 THEN 0 ELSE 1 + BitLength(n \div 2)

(***************************************************************************)
(* utils.py                                                                *)
(***************************************************************************)
RECURSIVE gcd(_, _)
gcd(a, b) == IF b # 0 THEN gcd(b, Mod(a, b)) ELSE a

\* (variant that returns the inner coefficients without the quotient term)
RECURSIVE extended_gcd_without_quotient(_, _)
extended_gcd_without_quotient(a, b) ==
    IF a = 0 THEN <<b, 0, 1>>
    ELSE LET r == extended_gcd_without_quotient(Mod(b, a), a)
         IN  <<r[1], r[3], r[2]>>

\* (g, x, y) as the sequence <<g, x, y>>
RECURSIVE extended_gcd(_, _)
extended_gcd(a, b) ==
    IF a = 0 THEN <<b, 0, 1>>
    ELSE LET r == extended_gcd(Mod(b, a), a)
         IN  <<r[1], r[3] - FloorDiv(b, a) * r[2], r[2]>>

modinv_unreduced(a, m) ==
    LET r == extended_gcd(Mod(a, m), m)
    IN  IF r[1] # 1 THEN ValueError("no inverse", <<a, m, r[1]>>)
        ELSE Value(r[2])

modinv(a, m) ==
    LET r == extended_gcd(Mod(a, m), m)
    IN  IF r[1] # 1 THEN ValueError("no inverse", <<a, m, r[1]>>)
        ELSE Value(Mod(r[2], m))

\* math.isqrt: the largest r with r*r <= n, by bisection on lo*lo <= n < hi*hi
\* (mid*mid <= n is tested as mid <= n // mid)
RECURSIVE isqrt_bisect(_, _, _)
isqrt_bisect(n, lo, hi) ==
    IF hi - lo <= 1 THEN lo
    ELSE LET mid == (lo + hi) \div 2
         IN  IF mid <= n \div mid THEN isqrt_bisect(n, mid, hi)
             ELSE isqrt_bisect(n, lo, mid)

\* called with n >= 0 only (every caller checks the sign first)
isqrt(n) == IF n = 0 THEN 0 ELSE isqrt_bisect(n, 1, n + 1)

(***************************************************************************)
(* is_probable_prime (Miller-Rabin).  The bases a = random.randrange(2,    *)
(* n - 1) are drawn by the caller's steps, one round per step.             *)
(***************************************************************************)
DefaultRounds == 20

\* lines 25-30: the answers given before any base is drawn
is_probable_prime_early(n) ==
    IF n < 2 THEN "False"
    ELSE IF n = 2 \/ n = 3 THEN "True"
    ELSE IF Mod(n, 2) = 0 THEN "False"
    ELSE "rounds"

\* lines 33-36: n - 1 = 2^r * d with d odd, as <<r, d>>
RECURSIVE two_adic_split(_, _)
two_adic_split(r, d) ==
    IF Mod(d, 2) = 0 THEN two_adic_split(r + 1, FloorDiv(d, 2)) ELSE <<r, d>>

\* lines 43-48: up to `left` squarings looking for n - 1; FALSE is the for-else
RECURSIVE squarings_reach_minus_one(_, _, _)
squarings_reach_minus_one(x, n, left) ==
    IF left = 0 THEN FALSE
    ELSE LET x2 == PowMod(x, 2, n)
         IN  IF x2 = n - 1 THEN TRUE ELSE squarings_reach_minus_one(x2, n, left - 1)

\* (variant without the test x == n - 1 before the squarings)
witness_round_passes_only_one(n, a) ==
    LET rd == two_adic_split(0, n - 1)
        x  == PowMod(a, rd[2], n)
    IN  \/ x = 1
        \/ squarings_reach_minus_one(x, n, rd[1] - 1)

\* lines 39-48: one round with base a; FALSE when the round returns False
witness_round_passes(n, a) ==
    LET rd == two_adic_split(0, n - 1)
        x  == PowMod(a, rd[2], n)
    IN  \/ x = 1
        \/ x = n - 1
        \/ squarings_reach_minus_one(x, n, rd[1] - 1)

(***************************************************************************)
(* integer_nth_root.  The estimate x = int(round(n ** (1.0 / k))) is       *)
(* floating-point arithmetic: the code only uses it as a hint, and it is a *)
(* parameter here, chosen by the caller's step from Estimates.             *)
(***************************************************************************)
NthRoot(root, exact) == [kind |-> "value", msg |-> "", val |-> <<root>>, exact |-> exact]

NthRootError(m) == [kind |-> "ValueError", msg |-> m, val |-> <<>>, exact |-> FALSE]

\* (variant without the test candidate > 0)
RECURSIVE nth_root_neighbourhood_any_sign(_, _, _, _)
nth_root_neighbourhood_any_sign(n, k, x, delta) ==
    IF delta > 2 THEN 0
    ELSE LET candidate == x + delta
         IN  IF Pow(candidate, k) = n THEN candidate
             ELSE nth_root_neighbourhood_any_sign(n, k, x, delta + 1)

\* for delta in (-2, -1, 0, 1, 2): the first candidate that is the exact root, 0 when none is
RECURSIVE nth_root_neighbourhood(_, _, _, _)
nth_root_neighbourhood(n, k, x, delta) ==
    IF delta > 2 THEN 0
    ELSE LET candidate == x + delta
         IN  IF candidate > 0 /\ Pow(candidate, k) = n THEN candidate
             ELSE nth_root_neighbourhood(n, k, x, delta + 1)

\* while lo < hi: the binary search for the floor
RECURSIVE nth_root_search(_, _, _, _)
nth_root_search(n, k, lo, hi) ==
    IF lo < hi
    THEN LET mid == FloorDiv(lo + hi + 1, 2)
         IN  IF Pow(mid, k) <= n THEN nth_root_search(n, k, mid, hi)
             ELSE nth_root_search(n, k, lo, mid - 1)
    ELSE lo

integer_nth_root(n, k, x) ==
    IF n < 0 THEN NthRootError("n must be non-negative")
    ELSE IF k <= 0 THEN NthRootError("k must be positive")
    ELSE IF n = 0 THEN NthRoot(0, TRUE)
    ELSE IF k = 1 THEN NthRoot(n, TRUE)
    ELSE LET near == nth_root_neighbourhood(n, k, x, -2)
         IN  IF near # 0 THEN NthRoot(near, TRUE)
             ELSE LET hi == Min(n, Pow(2, FloorDiv(BitLength(n) + k - 1, k) + 1))
                      lo == nth_root_search(n, k, 1, hi)
                  IN  NthRoot(lo, Pow(lo, k) = n)

\* the coefficients [a0, a1, ...] of numerator/denominator
RECURSIVE continued_fraction(_, _)
continued_fraction(numerator, denominator) ==
    IF denominator = 0 THEN <<>>
    ELSE LET q == FloorDiv(numerator, denominator)
         IN  <<q>> \o continued_fraction(denominator, numerator - q * denominator)

\* (variant whose denominators drop the term q_prev)
RECURSIVE convergents_loop_one_term(_, _, _, _, _)
convergents_loop_one_term(cf, p_prev, p_curr, q_prev, q_curr) ==
    IF cf = <<>> THEN <<>>
    ELSE LET a == Head(cf)
             p == a * p_curr + p_prev
             q == a * q_curr
         IN  <<(<<p, q>>)>> \o convergents_loop_one_term(Tail(cf), p_curr, p, q_curr, q)

\* the loop of convergents over the coefficients cf, from (p_prev, p_curr, q_prev, q_curr)
RECURSIVE convergents_loop(_, _, _, _, _)
convergents_loop(cf, p_prev, p_curr, q_prev, q_curr) ==
    IF cf = <<>> THEN <<>>
    ELSE LET a == Head(cf)
             p == a * p_curr + p_prev
             q == a * q_curr + q_prev
         IN  <<(<<p, q>>)>> \o convergents_loop(Tail(cf), p_curr, p, q_curr, q)

\* (variant with the seeds of the two recurrences exchanged)
convergents_swapped_seeds(numerator, denominator) ==
    convergents_loop(continued_fraction(numerator, denominator), 1, 0, 0, 1)

convergents(numerator, denominator) ==
    convergents_loop(continued_fraction(numerator, denominator), 0, 1, 1, 0)

(***************************************************************************)
(* rsa_core.py: the key record.  A full key holds n, e, d, p, q; the       *)
(* attacks read n and e only.                                              *)
(***************************************************************************)
RSAKey(n, e, d, p, q) == [n |-> n, e |-> e, d |-> d, p |-> p, q |-> q]

\* rsa_core.py lines 87-158; key.d = 0 stands for a key without private part
encrypt(message, key) ==
    IF ~(0 <= message /\ message < key.n)
    THEN ValueError("message must be in [0, n-1]", <<message>>)
    ELSE Value(PowMod(message, key.e, key.n))

decrypt(ciphertext, key) ==
    IF key.d = 0 THEN ValueError("key does not contain a private exponent (d)", <<>>)
    ELSE IF ~(0 <= ciphertext /\ ciphertext < key.n)
    THEN ValueError("ciphertext must be in [0, n-1]", <<ciphertext>>)
    ELSE Value(PowMod(ciphertext, key.d, key.n))

sign(message, key) ==
    IF key.d = 0 THEN ValueError("key does not contain a private exponent (d)", <<>>)
    ELSE IF ~(0 <= message /\ message < key.n)
    THEN ValueError("message must be in [0, n-1]", <<message>>)
    ELSE Value(PowMod(message, key.d, key.n))

verify(signature, key) ==
    IF ~(0 <= signature /\ signature < key.n)
    THEN ValueError("signature must be in [0, n-1]", <<signature>>)
    ELSE Value(PowMod(signature, key.e, key.n))

(***************************************************************************)
(* attacks/wiener.py                                                       *)
(***************************************************************************)
\* the body of the loop for one convergent (k, d): TRUE when it returns d
\* (variant without the test that both roots exceed 1)
wiener_accepts_any_roots(n, e, k, d) ==
    /\ k # 0
    /\ Mod(e * d - 1, k) = 0
    /\ LET phi == FloorDiv(e * d - 1, k)
           s == n - phi + 1
           discriminant == s * s - 4 * n
       IN  /\ discriminant >= 0
           /\ LET sqrt_disc == isqrt(discriminant)
                  p == FloorDiv(s + sqrt_disc, 2)
                  q == FloorDiv(s - sqrt_disc, 2)
              IN  /\ sqrt_disc * sqrt_disc = discriminant
                  /\ p * q = n

wiener_accepts(n, e, k, d) ==
    /\ k # 0
    /\ Mod(e * d - 1, k) = 0
    /\ LET phi == FloorDiv(e * d - 1, k)
           s == n - phi + 1
           discriminant == s * s - 4 * n
       IN  /\ discriminant >= 0
           /\ LET sqrt_disc == isqrt(discriminant)
                  p == FloorDiv(s + sqrt_disc, 2)
                  q == FloorDiv(s - sqrt_disc, 2)
              IN  /\ sqrt_disc * sqrt_disc = discriminant
                  /\ p * q = n
                  /\ p > 1
                  /\ q > 1

\* for k, d in convergents(e, n): the first accepted d, None when none is
RECURSIVE wiener_loop(_, _, _)
wiener_loop(cs, n, e) ==
    IF cs = <<>> THEN None
    ELSE IF wiener_accepts(n, e, Head(cs)[1], Head(cs)[2]) THEN Value(Head(cs)[2])
    ELSE wiener_loop(Tail(cs), n, e)

wiener_attack(key) == wiener_loop(convergents(key.e, key.n), key.n, key.e)

(***************************************************************************)
(* Keys for the Wiener attack.  A key is built as the tests build theirs   *)
(* (make_wiener_key): two distinct primes, a chosen exponent u coprime to  *)
(* phi and its inverse v.  Either d = u (small private exponent, e = v or  *)
(* e = v plus multiples of phi) or e = u (small public exponent, d = v).   *)
(***************************************************************************)
MaxPrime == 149

MaxSmallExp == 9

MaxPhiMultiple == 1

IsPrime(n) == n > 1 /\ \A k \in 2..(n - 1) : k * k > n \/ n % k # 0

Primes == {p \in 2..MaxPrime : IsPrime(p)}

WienerKeys ==
    UNION {
      UNION {
        LET phi == (p - 1) * (q - 1)
        IN  UNION {
              LET v == modinv(u, phi).val[1]
              IN  {RSAKey(p * q, v + t * phi, u, p, q) : t \in 0..MaxPhiMultiple}
                    \cup {RSAKey(p * q, u, v, p, q)}
              : u \in {x \in 1..MaxSmallExp : x < phi /\ gcd(x, phi) = 1} }
        : q \in {x \in Primes : x < p} }
      : p \in Primes }

InitWiener ==
    /\ fn = "wiener_attack"
    /\ args \in WienerKeys
    /\ loc = NoLocals
    /\ pc = "call"
    /\ ret = Pending

WienerAttack ==
    /\ fn = "wiener_attack"
    /\ pc = "call"
    /\ ret' = wiener_attack(args)
    /\ pc' = "done"
    /\ UNCHANGED <<fn, args, loc>>

NextWiener == WienerAttack

SpecWiener == InitWiener /\ [][NextWiener]_vars

Phi(key) == (key.p - 1) * (key.q - 1)

\* d < n^0.25 / 3, that is 81*d^4 < n, that is d*d <= isqrt(n - 1) // 9
BelowWienerBound(d, n) == d * d <= isqrt(n - 1) \div 9

C2_WienerNeverWrong ==
    (/\ pc = "done"
     /\ 0 < args.d /\ args.d < Phi(args)
     /\ ret.kind = "value")
        => ret = Value(args.d)

\* a key outside Wiener's bound is answered: once with d, once with None
C2_Witness ==
    /\ pc = "done"
    /\ 0 < args.d /\ args.d < Phi(args)
    /\ ~BelowWienerBound(args.d, args.n)
    /\ ret = Value(args.d)

(***************************************************************************)
(* attacks/small_exponent.py                                               *)
(* ciphertexts is a sequence of pairs <<n_i, c_i>>; Python's index i is    *)
(* position i + 1 here, and error messages carry Python's indices.         *)
(***************************************************************************)
RECURSIVE Product(_)
Product(moduli) == IF moduli = <<>> THEN 1 ELSE Head(moduli) * Product(Tail(moduli))

\* for r, m in zip(remainders, moduli): x += r * Mi * modinv(Mi, m); a failed
\* modinv ends the loop with its error
RECURSIVE crt_sum(_, _, _, _)
crt_sum(remainders, moduli, M, x) ==
    IF remainders = <<>> \/ moduli = <<>> THEN Value(x)
    ELSE LET m  == Head(moduli)
             Mi == FloorDiv(M, m)
             inv == modinv(Mi, m)
         IN  IF inv.kind # "value" THEN inv
             ELSE crt_sum(Tail(remainders), Tail(moduli), M,
                          x + Head(remainders) * Mi * inv.val[1])

\* (variant that leaves out the factor modinv(Mi, m))
crt_without_inverse(remainders, moduli) ==
    LET M == Product(moduli)
        RECURSIVE total(_, _)
        total(rs, ms) == IF rs = <<>> \/ ms = <<>> THEN 0
                         ELSE Head(rs) * FloorDiv(M, Head(ms)) + total(Tail(rs), Tail(ms))
    IN  Value(Mod(total(remainders, moduli), M))

_crt(remainders, moduli) ==
    LET M == Product(moduli)
        x == crt_sum(remainders, moduli, M, 0)
    IN  IF x.kind # "value" THEN x ELSE Value(Mod(x.val[1], M))

\* the pairs (i, j), i < j < bound, in the order the two loops visit them:
\* the first with gcd(n_i, n_j) != 1, <<>> when there is none
RECURSIVE first_not_coprime(_, _, _, _)
first_not_coprime(ciphertexts, bound, i, j) ==
    IF i >= bound THEN <<>>
    ELSE IF j >= bound THEN first_not_coprime(ciphertexts, bound, i + 1, i + 2)
    ELSE IF gcd(ciphertexts[i + 1][1], ciphertexts[j + 1][1]) # 1 THEN <<i, j>>
    ELSE first_not_coprime(ciphertexts, bound, i, j + 1)

\* (variant whose coprimality loops run over every pair supplied)
small_exponent_attack_checks_all(ciphertexts, e, x0) ==
    IF Len(ciphertexts) < e
    THEN ValueError("too few ciphertexts", <<e, Len(ciphertexts)>>)
    ELSE LET bad == first_not_coprime(ciphertexts, Len(ciphertexts), 0, 1)
         IN  IF bad # <<>> THEN ValueError("moduli not coprime", bad)
             ELSE LET ns == [i \in 1..e |-> ciphertexts[i][1]]
                      cs == [i \in 1..e |-> ciphertexts[i][2]]
                      x  == _crt(cs, ns)
                  IN  IF x.kind # "value" THEN x
                      ELSE LET r == integer_nth_root(x.val[1], e, x0)
                           IN  IF r.kind # "value" THEN ValueError(r.msg, <<>>)
                               ELSE IF r.exact THEN Value(r.val[1]) ELSE None

\* x0 is the floating-point estimate integer_nth_root starts from; e >= 0
small_exponent_attack(ciphertexts, e, x0) ==
    IF Len(ciphertexts) < e
    THEN ValueError("too few ciphertexts", <<e, Len(ciphertexts)>>)
    ELSE LET bad == first_not_coprime(ciphertexts, e, 0, 1)
         IN  IF bad # <<>> THEN ValueError("moduli not coprime", bad)
             ELSE LET ns == [i \in 1..e |-> ciphertexts[i][1]]
                      cs == [i \in 1..e |-> ciphertexts[i][2]]
                      x  == _crt(cs, ns)
                  IN  IF x.kind # "value" THEN x
                      ELSE LET r == integer_nth_root(x.val[1], e, x0)
                           IN  IF r.kind # "value" THEN ValueError(r.msg, <<>>)
                               ELSE IF r.exact THEN Value(r.val[1]) ELSE None

(***************************************************************************)
(* Arguments of the small-exponent attack, as its docstring describes      *)
(* them: a list of pairs (n_i, c_i) with c_i = m^e mod n_i for one         *)
(* plaintext m, which may or may not be below the moduli.                  *)
(***************************************************************************)
MaxModulus == 7

MaxPairs == 3

MaxE == 3

MaxMessage == 6

MaxEstimate == 8

ModuliLists == UNION {[1..k -> 1..MaxModulus] : k \in 0..MaxPairs}

Estimates == 0..MaxEstimate

InitSmallExponent ==
    /\ fn = "small_exponent_attack"
    /\ \E ns \in ModuliLists, m \in 0..MaxMessage, e \in 0..MaxE :
          args = [ciphertexts |-> [i \in 1..Len(ns) |-> <<ns[i], PowMod(m, e, ns[i])>>],
                  e |-> e]
    /\ loc = NoLocals
    /\ pc = "call"
    /\ ret = Pending

SmallExponentAttack ==
    /\ fn = "small_exponent_attack"
    /\ pc = "call"
    /\ \E x0 \in Estimates : ret' = small_exponent_attack(args.ciphertexts, args.e, x0)
    /\ pc' = "done"
    /\ UNCHANGED <<fn, args, loc>>

NextSmallExponent == SmallExponentAttack

SpecSmallExponent == InitSmallExponent /\ [][NextSmallExponent]_vars

Modulus(i) == args.ciphertexts[i][1]

Ciphertext(i) == args.ciphertexts[i][2]

FirstModuliCoprime ==
    \A i, j \in 1..args.e : i < j => gcd(Modulus(i), Modulus(j)) = 1

\* every first-e ciphertext is the encryption of m, and m is below every first-e modulus
Broadcasts(m) ==
    \A i \in 1..args.e : m < Modulus(i) /\ Ciphertext(i) = PowMod(m, args.e, Modulus(i))

Offending ==
    {ij \in (0..(args.e - 1)) \X (0..(args.e - 1)) :
        ij[1] < ij[2] /\ gcd(Modulus(ij[1] + 1), Modulus(ij[2] + 1)) # 1}

LexLess(a, b) == a[1] < b[1] \/ (a[1] = b[1] /\ a[2] <= b[2])

\* C9: fewer than e pairs raises the invalid-input error; otherwise a shared
\* factor among the first e moduli raises the invalid-input error naming the
\* first offending pair in lexicographic order; and the outcome is that of
\* the first e pairs alone, whatever the later pairs are.
C9_ValidatesFirstEOnly ==
    pc = "done" =>
        /\ Len(args.ciphertexts) < args.e =>
              (ret.kind = "ValueError" /\ ret.msg = "too few ciphertexts")
        /\ (Len(args.ciphertexts) >= args.e /\ Offending # {}) =>
              /\ ret.kind = "ValueError"
              /\ ret.msg = "moduli not coprime"
              /\ ret.val \in Offending
              /\ \A ij \in Offending : LexLess(ret.val, ij)
        /\ Len(args.ciphertexts) >= args.e =>
              \A x0 \in Estimates :
                  ret = small_exponent_attack(SubSeq(args.ciphertexts, 1, args.e), args.e, x0)

\* more pairs than e, the first e coprime, a later modulus sharing a factor
\* with one of them: the call still returns a plaintext
C9_Witness ==
    /\ pc = "done"
    /\ args.e >= 2
    /\ Len(args.ciphertexts) > args.e
    /\ FirstModuliCoprime
    /\ \E i \in 1..args.e :
          gcd(Modulus(i), Modulus(args.e + 1)) # 1
    /\ ret.kind = "value"

(***************************************************************************)
(* attacks/common_modulus.py                                               *)
(***************************************************************************)
modinv_int(a, m) ==
    LET r == extended_gcd(Mod(a, m), m)
    IN  IF r[1] # 1 THEN ValueError("no inverse", <<a, m, r[1]>>)
        ELSE Value(Mod(r[2], m))

\* (variant that raises c itself to -k, without inverting it)
signed_power_no_inverse(c, k, n) ==
    IF k < 0 THEN Value(PowMod(c, -k, n)) ELSE Value(PowMod(c, k, n))

\* c^k mod n for a Bezout coefficient k of either sign: a negative k goes
\* through the inverse of c, whose error is passed on
signed_power(c, k, n) ==
    IF k < 0
    THEN LET inv == modinv_int(c, n)
         IN  IF inv.kind # "value" THEN inv ELSE Value(PowMod(inv.val[1], -k, n))
    ELSE Value(PowMod(c, k, n))

common_modulus_attack(n, e1, e2, c1, c2) ==
    IF gcd(e1, e2) # 1 THEN None
    ELSE LET r == extended_gcd(e1, e2)
             a == r[2]
             b == r[3]
             c1_term == signed_power(c1, a, n)
             c2_term == signed_power(c2, b, n)
         IN  IF c1_term.kind # "value" THEN c1_term
             ELSE IF c2_term.kind # "value" THEN c2_term
             ELSE Value(Mod(c1_term.val[1] * c2_term.val[1], n))

MaxSharedModulus == 12

MaxExponent == 6

InitCommonModulus ==
    /\ fn = "common_modulus_attack"
    /\ \E n \in 2..MaxSharedModulus, e1 \in 1..MaxExponent, e2 \in 1..MaxExponent :
          \E c1 \in 0..(n - 1), c2 \in 0..(n - 1) :
              args = [n |-> n, e1 |-> e1, e2 |-> e2, c1 |-> c1, c2 |-> c2]
    /\ loc = NoLocals
    /\ pc = "call"
    /\ ret = Pending

CommonModulusAttack ==
    /\ fn = "common_modulus_attack"
    /\ pc = "call"
    /\ ret' = common_modulus_attack(args.n, args.e1, args.e2, args.c1, args.c2)
    /\ pc' = "done"
    /\ UNCHANGED <<fn, args, loc>>

NextCommonModulus == CommonModulusAttack

SpecCommonModulus == InitCommonModulus /\ [][NextCommonModulus]_vars

Divides(k, a) == a % k = 0

\* a and b (not both 0) have no common divisor above 1
Coprime(a, b) == \A k \in 2..(Abs(a) + Abs(b)) : ~(Divides(k, a) /\ Divides(k, b))

\* c1 and c2 are the encryptions of m under e1 and e2
Encrypts(m) ==
    /\ args.c1 = PowMod(m, args.e1, args.n)
    /\ args.c2 = PowMod(m, args.e2, args.n)

C8_ResultVerified ==
    (pc = "done" /\ ret.kind = "value") =>
        /\ PowMod(ret.val[1], args.e1, args.n) = args.c1
        /\ PowMod(ret.val[1], args.e2, args.n) = args.c2

(***************************************************************************)
(* modinv on its own                                                       *)
(***************************************************************************)
MaxOperand == 12

MaxInverseModulus == 10

InitModinv ==
    /\ fn = "modinv"
    /\ \E a \in (-MaxOperand)..MaxOperand, m \in 1..MaxInverseModulus :
          args = [a |-> a, m |-> m]
    /\ loc = NoLocals
    /\ pc = "call"
    /\ ret = Pending

Modinv ==
    /\ fn = "modinv"
    /\ pc = "call"
    /\ ret' = modinv(args.a, args.m)
    /\ pc' = "done"
    /\ UNCHANGED <<fn, args, loc>>

NextModinv == Modinv

SpecModinv == InitModinv /\ [][NextModinv]_vars

\* x is the smallest non-negative integer with (a*x) mod m = 1
SmallestInverse(x, a, m) ==
    /\ 0 <= x /\ x < m
    /\ (a * x) % m = 1
    /\ \A y \in 0..(x - 1) : (a * y) % m # 1

InverseOrError(a, m) ==
    IF Coprime(a % m, m)
    THEN ret.kind = "value" /\ SmallestInverse(ret.val[1], a, m)
    ELSE ret.kind = "ValueError" /\ ret.msg = "no inverse"

MaxFermatN == 150

MaxStepBudget == 6

MaxInvalid == 3

InitFermat ==
    /\ fn = "fermat_factor"
    /\ \E n \in (-MaxInvalid)..MaxFermatN, max_steps \in 0..MaxStepBudget :
          args = [n |-> n, max_steps |-> max_steps]
    /\ loc = NoLocals
    /\ pc = "call"
    /\ ret = Pending

\* lines 33-43: the checks before the loop
FermatEnter ==
    /\ fn = "fermat_factor"
    /\ pc = "call"
    /\ IF args.n <= 1
       THEN /\ ret' = ValueError("n must be > 1", <<args.n>>)
            /\ pc' = "done"
            /\ loc' = loc
       ELSE IF Mod(args.n, 2) = 0
       THEN /\ ret' = Pair(2, FloorDiv(args.n, 2))
            /\ pc' = "done"
            /\ loc' = loc
       ELSE LET a == isqrt(args.n)
            IN  IF a * a = args.n
                THEN /\ ret' = Pair(a, a)
                     /\ pc' = "done"
                     /\ loc' = loc
                ELSE /\ loc' = [a |-> a + 1, i |-> 0]
                     /\ pc' = "loop"
                     /\ ret' = ret
    /\ UNCHANGED <<fn, args>>

\* (variant of the iteration without the test p > 1 and q < n)
FermatStepAnySplit ==
    /\ fn = "fermat_factor"
    /\ pc = "loop"
    /\ loc.i < args.max_steps
    /\ LET a  == loc.a
           b2 == a * a - args.n
           b  == isqrt(b2)
           p  == a - b
           q  == a + b
       IN  IF b * b = b2
           THEN /\ ret' = (IF p <= q THEN Pair(p, q) ELSE Pair(q, p))
                /\ pc' = "done"
                /\ loc' = loc
           ELSE /\ loc' = [a |-> a + 1, i |-> loc.i + 1]
                /\ pc' = pc
                /\ ret' = ret
    /\ UNCHANGED <<fn, args>>

\* lines 45-52: one iteration
FermatStep ==
    /\ fn = "fermat_factor"
    /\ pc = "loop"
    /\ loc.i < args.max_steps
    /\ LET a  == loc.a
           b2 == a * a - args.n
           b  == isqrt(b2)
           p  == a - b
           q  == a + b
       IN  IF b * b = b2 /\ p > 1 /\ q < args.n
           THEN /\ ret' = (IF p <= q THEN Pair(p, q) ELSE Pair(q, p))
                /\ pc' = "done"
                /\ loc' = loc
           ELSE /\ loc' = [a |-> a + 1, i |-> loc.i + 1]
                /\ pc' = pc
                /\ ret' = ret
    /\ UNCHANGED <<fn, args>>

\* line 54: the loop ran out
FermatGiveUp ==
    /\ fn = "fermat_factor"
    /\ pc = "loop"
    /\ loc.i >= args.max_steps
    /\ ret' = None
    /\ pc' = "done"
    /\ UNCHANGED <<fn, args, loc>>

NextFermat == FermatEnter \/ FermatStep \/ FermatGiveUp

SpecFermat == InitFermat /\ [][NextFermat]_vars

\* C5: for n > 1 fermat_factor returns None or a pair (p, q) with p*q = n and
\* 1 < p <= q < n, (2, n/2) for even n; for n <= 1 it raises the
\* invalid-input error.
C5_FactorPairOrNone ==
    pc = "done" =>
        IF args.n > 1
        THEN \/ ret = None
             \/ /\ ret.kind = "value"
                /\ Len(ret.val) = 2
                /\ ret.val[1] * ret.val[2] = args.n
                /\ 1 < ret.val[1]
                /\ ret.val[1] <= ret.val[2]
                /\ ret.val[2] < args.n
                /\ args.n % 2 = 0 => ret.val = <<2, args.n \div 2>>
        ELSE ret.kind = "ValueError" /\ ret.msg = "n must be > 1"

\* the candidate the search starts from: the least a with a*a > n
FirstCandidate(n) == CHOOSE a \in 1..n : a * a > n /\ (a - 1) * (a - 1) <= n

\* a*a - n is a perfect square b*b with a - b > 1
SplitsAt(n, a) == \E b \in 0..a : a * a - n = b * b /\ a - b > 1

\* the b of SplitsAt
SplitRoot(n, a) == CHOOSE b \in 0..a : a * a - n = b * b

OddNonSquare(n) == n > 1 /\ n % 2 = 1 /\ \A r \in 1..n : r * r # n

\* C17: for odd non-square n > 1 fermat_factor tries a = isqrt(n)+1,
\* isqrt(n)+2, ... in order, at most max_steps of them, and returns
\* (a-b, a+b) for the first a with a*a - n = b*b and a - b > 1, None when
\* there is none within the budget; None for odd primes and for max_steps = 0.
C17_FirstSplitWithinBudget ==
    OddNonSquare(args.n) =>
        LET first == FirstCandidate(args.n)
            tried == first..(first + args.max_steps - 1)
        IN  /\ pc = "loop" =>
                  /\ loc.a = first + loc.i
                  /\ loc.i <= args.max_steps
                  /\ \A a \in first..(loc.a - 1) : ~SplitsAt(args.n, a)
            /\ pc = "done" =>
                  /\ ret.kind \in {"value", "None"}
                  /\ ret.kind = "value" =>
                        /\ loc.a \in tried
                        /\ SplitsAt(args.n, loc.a)
                        /\ \A a \in first..(loc.a - 1) : ~SplitsAt(args.n, a)
                        /\ ret = Pair(loc.a - SplitRoot(args.n, loc.a),
                                      loc.a + SplitRoot(args.n, loc.a))
                  /\ ret = None => \A a \in tried : ~SplitsAt(args.n, a)
                  /\ IsPrime(args.n) => ret = None
                  /\ args.max_steps = 0 => ret = None

\* a split found at a candidate after the first one
C17_Witness ==
    /\ pc = "done"
    /\ OddNonSquare(args.n)
    /\ ret.kind = "value"
    /\ loc.i >= 1

(***************************************************************************)
(* attacks/pollard_rho.py, one loop iteration per step.                    *)
(* loc.round counts the Miller-Rabin rounds of the pre-check that passed;  *)
(* loc.pass is 0 for the first search loop (f, constant 1) and c for the   *)
(* retry with constant c; loc.x, loc.y, loc.d, loc.steps are the locals of *)
(* the running search loop.  loc.total is bookkeeping, not a variable of   *)
(* the code: the loop iterations made since the call, over all passes.     *)
(***************************************************************************)
DefaultMaxSteps == 1000000

RetryConstantsEnd == 20

MaxRhoN == 120

StepBudgets == (0..MaxStepBudget) \cup {DefaultMaxSteps}

RhoLocals(round, pass, c) ==
    [round |-> round, pass |-> pass, c |-> c, x |-> 2, y |-> 2, d |-> 1, steps |-> 0,
     total |-> 0]

\* f(x) = (x*x + 1) % n and fc(x) = (x*x + c) % n
fc(x, c, n) == Mod(x * x + c, n)

InitRho ==
    /\ fn = "pollard_rho"
    /\ \E n \in (-MaxInvalid)..MaxRhoN, max_steps \in StepBudgets :
          args = [n |-> n, max_steps |-> max_steps]
    /\ loc = NoLocals
    /\ pc = "call"
    /\ ret = Pending

\* lines 33-40 and is_probable_prime up to its rounds
RhoEnter ==
    /\ fn = "pollard_rho"
    /\ pc = "call"
    /\ IF args.n <= 1
       THEN /\ ret' = ValueError("n must be > 1", <<args.n>>)
            /\ pc' = "done"
            /\ loc' = loc
       ELSE IF Mod(args.n, 2) = 0
       THEN /\ ret' = Value(2)
            /\ pc' = "done"
            /\ loc' = loc
       ELSE IF is_probable_prime_early(args.n) = "True"
       THEN /\ ret' = None
            /\ pc' = "done"
            /\ loc' = RhoLocals(0, 0, 1)
       ELSE IF is_probable_prime_early(args.n) = "False"
       THEN /\ loc' = RhoLocals(0, 0, 1)
            /\ pc' = "search"
            /\ ret' = ret
       ELSE /\ loc' = RhoLocals(0, 0, 1)
            /\ pc' = "precheck"
            /\ ret' = ret
    /\ UNCHANGED <<fn, args>>

\* the bases a of randrange(2, n - 1) whose round passes
PassingBases(n) == {a \in 2..(n - 2) : witness_round_passes(n, a)}

\* one round of is_probable_prime: a base that passes goes on to the next
\* round, a base that exposes n ends the pre-check and the search starts
RhoWitnessRound ==
    /\ fn = "pollard_rho"
    /\ pc = "precheck"
    /\ loc.round < DefaultRounds
    /\ \/ /\ PassingBases(args.n) # {}
          /\ loc' = [loc EXCEPT !.round = loc.round + 1]
          /\ pc' = pc
       \/ /\ PassingBases(args.n) # 2..(args.n - 2)
          /\ loc' = loc
          /\ pc' = "search"
    /\ UNCHANGED <<fn, args, ret>>

\* every round passed: is_probable_prime returns True, pollard_rho None
RhoCertifiedPrime ==
    /\ fn = "pollard_rho"
    /\ pc = "precheck"
    /\ loc.round >= DefaultRounds
    /\ ret' = None
    /\ pc' = "done"
    /\ UNCHANGED <<fn, args, loc>>

\* the body of `while d == 1 and steps < max_steps`
RhoStep ==
    /\ fn = "pollard_rho"
    /\ pc = "search"
    /\ loc.d = 1 /\ loc.steps < args.max_steps
    /\ LET x == fc(loc.x, loc.c, args.n)
           y == fc(fc(loc.y, loc.c, args.n), loc.c, args.n)
       IN  loc' = [loc EXCEPT !.x = x, !.y = y,
                              !.d = gcd(Abs(x - y), args.n),
                              !.steps = loc.steps + 1,
                              !.total = loc.total + 1]
    /\ UNCHANGED <<fn, args, pc, ret>>

LoopEnded == ~(loc.d = 1 /\ loc.steps < args.max_steps)

\* `if 1 < d < n: return d`
RhoFound ==
    /\ fn = "pollard_rho"
    /\ pc = "search"
    /\ LoopEnded
    /\ 1 < loc.d /\ loc.d < args.n
    /\ ret' = Value(loc.d)
    /\ pc' = "done"
    /\ UNCHANGED <<fn, args, loc>>

\* (variant of the retry that keeps x and y where the last pass left them)
RhoRetryKeepsPosition ==
    /\ fn = "pollard_rho"
    /\ pc = "search"
    /\ LoopEnded
    /\ ~(1 < loc.d /\ loc.d < args.n)
    /\ loc.pass + 1 < RetryConstantsEnd
    /\ loc' = [loc EXCEPT !.pass = loc.pass + 1, !.c = loc.pass + 1,
                          !.d = 1, !.steps = 0]
    /\ UNCHANGED <<fn, args, pc, ret>>

\* `for c in range(1, 20)`: the next constant, from x = y = 2, d = 1, steps = 0
RhoRetry ==
    /\ fn = "pollard_rho"
    /\ pc = "search"
    /\ LoopEnded
    /\ ~(1 < loc.d /\ loc.d < args.n)
    /\ loc.pass + 1 < RetryConstantsEnd
    /\ loc' = [RhoLocals(loc.round, loc.pass + 1, loc.pass + 1) EXCEPT !.total = loc.total]
    /\ UNCHANGED <<fn, args, pc, ret>>

\* the last constant failed: return None
RhoGiveUp ==
    /\ fn = "pollard_rho"
    /\ pc = "search"
    /\ LoopEnded
    /\ ~(1 < loc.d /\ loc.d < args.n)
    /\ loc.pass + 1 >= RetryConstantsEnd
    /\ ret' = None
    /\ pc' = "done"
    /\ UNCHANGED <<fn, args, loc>>

NextRho ==
    \/ RhoEnter
    \/ RhoWitnessRound
    \/ RhoCertifiedPrime
    \/ RhoStep
    \/ RhoFound
    \/ RhoRetry
    \/ RhoGiveUp

SpecRho == InitRho /\ [][NextRho]_vars

\* C6: for n > 1 pollard_rho returns None or one factor f with 1 < f < n and
\* n % f = 0, 2 for even n; for n <= 1 it raises the invalid-input error.
C6_FactorOrNone ==
    pc = "done" =>
        IF args.n > 1
        THEN \/ ret = None
             \/ /\ ret.kind = "value"
                /\ Len(ret.val) = 1
                /\ 1 < ret.val[1]
                /\ ret.val[1] < args.n
                /\ args.n % ret.val[1] = 0
                /\ args.n % 2 = 0 => ret.val[1] = 2
        ELSE ret.kind = "ValueError" /\ ret.msg = "n must be > 1"

\* C7, within the integers the model can hold: with the default budget and a
\* pre-check that answered correctly, None is returned exactly for the primes.
C7_NoneIffPrime ==
    (/\ pc = "done"
     /\ args.n >= 3
     /\ args.max_steps = DefaultMaxSteps
     /\ ~(IsPrime(args.n) = FALSE /\ loc # NoLocals /\ loc.round >= DefaultRounds))
        => /\ ret = None <=> IsPrime(args.n)
           /\ ret # None =>
                 /\ ret.kind = "value"
                 /\ 1 < ret.val[1] /\ ret.val[1] < args.n
                 /\ args.n % ret.val[1] = 0

(***************************************************************************)
(* integer_nth_root called on its own.  The call draws the estimate: any   *)
(* integer, below, near or above the true root, negative ones included.    *)
(***************************************************************************)
MaxRadicand == 130

MaxDegree == 4

MaxRootEstimate == 14

RootEstimates == (-MaxInvalid)..MaxRootEstimate

InitNthRoot ==
    /\ fn = "integer_nth_root"
    /\ \E n \in (-MaxInvalid)..MaxRadicand, k \in 0..MaxDegree :
          args = [n |-> n, k |-> k]
    /\ loc = NoLocals
    /\ pc = "call"
    /\ ret = Pending

\* loc.x keeps the estimate the call started from
IntegerNthRoot ==
    /\ fn = "integer_nth_root"
    /\ pc = "call"
    /\ \E x \in RootEstimates :
          /\ loc' = [x |-> x]
          /\ ret' = integer_nth_root(args.n, args.k, x)
    /\ pc' = "done"
    /\ UNCHANGED <<fn, args>>

NextNthRoot == IntegerNthRoot

SpecNthRoot == InitNthRoot /\ [][NextNthRoot]_vars

MaxBezoutOperand == 40

InitExtendedGcd ==
    /\ fn = "extended_gcd"
    /\ \E a \in 0..MaxBezoutOperand, b \in 0..MaxBezoutOperand :
          args = [a |-> a, b |-> b]
    /\ loc = NoLocals
    /\ pc = "call"
    /\ ret = Pending

ExtendedGcd ==
    /\ fn = "extended_gcd"
    /\ pc = "call"
    /\ ret' = [kind |-> "value", msg |-> "", val |-> extended_gcd(args.a, args.b)]
    /\ pc' = "done"
    /\ UNCHANGED <<fn, args, loc>>

NextExtendedGcd == ExtendedGcd

SpecExtendedGcd == InitExtendedGcd /\ [][NextExtendedGcd]_vars

\* the greatest common divisor of |a| and |b| by its definition: the largest
\* common divisor, and 0 when both are 0
GreatestCommonDivisor(a, b) ==
    IF a = 0 /\ b = 0 THEN 0
    ELSE LET common == {d \in 1..(Abs(a) + Abs(b)) : Abs(a) % d = 0 /\ Abs(b) % d = 0}
         IN  CHOOSE d \in common : \A other \in common : other <= d

MaxGcdOperand == 20

InitGcd ==
    /\ fn = "gcd"
    /\ \E a \in (-MaxGcdOperand)..MaxGcdOperand, b \in (-MaxGcdOperand)..MaxGcdOperand :
          args = [a |-> a, b |-> b]
    /\ loc = NoLocals
    /\ pc = "call"
    /\ ret = Pending

Gcd ==
    /\ fn = "gcd"
    /\ pc = "call"
    /\ ret' = Value(gcd(args.a, args.b))
    /\ pc' = "done"
    /\ UNCHANGED <<fn, args, loc>>

NextGcd == Gcd

SpecGcd == InitGcd /\ [][NextGcd]_vars

\* C13: for all integers a and b gcd returns a non-negative integer, the
\* greatest common divisor of |a| and |b|; gcd(0, x) = gcd(x, 0) = |x|.
C13_GcdOfMagnitudes ==
    pc = "done" =>
        /\ ret.val[1] >= 0
        /\ ret.val[1] = GreatestCommonDivisor(args.a, args.b)
        /\ args.a = 0 => ret.val[1] = Abs(args.b)
        /\ args.b = 0 => ret.val[1] = Abs(args.a)

\* what gcd returns instead: the greatest common divisor of the magnitudes
\* with the sign of b, or of a when b = 0
C13_SignOfSecondOperand ==
    pc = "done" =>
        LET g == GreatestCommonDivisor(args.a, args.b)
            s == IF args.b # 0 THEN args.b ELSE args.a
        IN  ret.val[1] = (IF s < 0 THEN -g ELSE g)

(***************************************************************************)
(* convergents called on its own and run to its end.  loc.cf keeps the     *)
(* coefficients continued_fraction yielded, ret.val the pairs in the order *)
(* they were yielded.                                                      *)
(***************************************************************************)
MaxNumerator == 40

MaxDenominator == 40

InitConvergents ==
    /\ fn = "convergents"
    /\ \E numerator \in 0..MaxNumerator, denominator \in 0..MaxDenominator :
          args = [numerator |-> numerator, denominator |-> denominator]
    /\ loc = NoLocals
    /\ pc = "call"
    /\ ret = Pending

Convergents ==
    /\ fn = "convergents"
    /\ pc = "call"
    /\ loc' = [cf |-> continued_fraction(args.numerator, args.denominator)]
    /\ ret' = [kind |-> "value", msg |-> "",
               val |-> convergents(args.numerator, args.denominator)]
    /\ pc' = "done"
    /\ UNCHANGED <<fn, args>>

NextConvergents == Convergents

SpecConvergents == InitConvergents /\ [][NextConvergents]_vars

\* the i-th pair yielded, with the seeds (1, 0) at i = 0 and (0, 1) at i = -1
ConvergentAt(pairs, i) ==
    IF i = 0 THEN <<1, 0>> ELSE IF i = -1 THEN <<0, 1>> ELSE pairs[i]

\* C14: for numerator >= 0 and denominator >= 1, convergents yields one pair
\* per coefficient, every pair is reduced and follows the two-term
\* recurrence from the seeds (1, 0) and (0, 1), and the last pair is
\* (numerator / g, denominator / g) with g = gcd(numerator, denominator).
C14_ReducedConvergents ==
    (pc = "done" /\ args.denominator >= 1) =>
        LET pairs == ret.val
            g == GreatestCommonDivisor(args.numerator, args.denominator)
        IN  /\ Len(pairs) = Len(loc.cf)
            /\ Len(pairs) >= 1
            /\ \A i \in 1..Len(pairs) :
                  /\ GreatestCommonDivisor(pairs[i][1], pairs[i][2]) = 1
                  /\ pairs[i][1] = loc.cf[i] * ConvergentAt(pairs, i - 1)[1]
                                      + ConvergentAt(pairs, i - 2)[1]
                  /\ pairs[i][2] = loc.cf[i] * ConvergentAt(pairs, i - 1)[2]
                                      + ConvergentAt(pairs, i - 2)[2]
            /\ pairs[Len(pairs)] = <<args.numerator \div g, args.denominator \div g>>

\* a fraction that is not in lowest terms and has at least four coefficients
C14_Witness ==
    /\ pc = "done"
    /\ args.denominator >= 1
    /\ GreatestCommonDivisor(args.numerator, args.denominator) > 1
    /\ Len(ret.val) >= 4

(***************************************************************************)
(* is_probable_prime called on its own, one round of the loop              *)
(* `for _ in range(rounds)` per step.  loc.round counts the rounds that    *)
(* passed, loc.a is the base of the last round; a call that returns before *)
(* the loop draws no base and leaves loc untouched.                        *)
(***************************************************************************)
MaxCandidate == 120

MaxRounds == 3

InitProbablePrime ==
    /\ fn = "is_probable_prime"
    /\ \E n \in (-MaxInvalid)..MaxCandidate, rounds \in 0..MaxRounds :
          args = [n |-> n, rounds |-> rounds]
    /\ loc = NoLocals
    /\ pc = "call"
    /\ ret = Pending

\* lines 25-36
ProbablePrimeEnter ==
    /\ fn = "is_probable_prime"
    /\ pc = "call"
    /\ IF is_probable_prime_early(args.n) = "rounds"
       THEN /\ loc' = [round |-> 0, a |-> 0]
            /\ pc' = "rounds"
            /\ ret' = ret
       ELSE /\ ret' = Value(is_probable_prime_early(args.n) = "True")
            /\ pc' = "done"
            /\ loc' = loc
    /\ UNCHANGED <<fn, args>>

\* lines 38-48: one round with a base drawn from [2, n - 2]
ProbablePrimeRound ==
    /\ fn = "is_probable_prime"
    /\ pc = "rounds"
    /\ loc.round < args.rounds
    /\ \E a \in 2..(args.n - 2) :
          IF witness_round_passes(args.n, a)
          THEN /\ loc' = [round |-> loc.round + 1, a |-> a]
               /\ pc' = pc
               /\ ret' = ret
          ELSE /\ loc' = [round |-> loc.round, a |-> a]
               /\ pc' = "done"
               /\ ret' = Value(FALSE)
    /\ UNCHANGED <<fn, args>>

\* line 49: every round passed
ProbablePrimeAccept ==
    /\ fn = "is_probable_prime"
    /\ pc = "rounds"
    /\ loc.round >= args.rounds
    /\ ret' = Value(TRUE)
    /\ pc' = "done"
    /\ UNCHANGED <<fn, args, loc>>

NextProbablePrime == ProbablePrimeEnter \/ ProbablePrimeRound \/ ProbablePrimeAccept

SpecProbablePrime == InitProbablePrime /\ [][NextProbablePrime]_vars

\* C15: is_probable_prime returns True for every prime n >= 2, whatever the
\* number of rounds and the bases drawn (so False only for non-primes);
\* False for n < 2; and for n < 4 it answers without drawing a base.
C15_NoFalseComposite ==
    pc = "done" =>
        /\ IsPrime(args.n) => ret = Value(TRUE)
        /\ args.n < 2 => ret = Value(FALSE)
        /\ args.n < 4 => loc = NoLocals

\* a prime above 3 accepted after at least two rounds
C15_Witness ==
    /\ pc = "done"
    /\ IsPrime(args.n) /\ args.n >= 5
    /\ args.rounds >= 2
    /\ loc.round = args.rounds
    /\ ret = Value(TRUE)

(***************************************************************************)
(* rsa_core.py: generate_keypair, one iteration of its `while True` loop   *)
(* per step, followed by encrypt then decrypt, or sign then verify, under  *)
(* the key it returned.  generate_prime(half) is taken to return a true    *)
(* prime of exactly `half` bits, any of them.  loc.key is the key          *)
(* returned, loc.m the message, loc.c the ciphertext or signature.         *)
(***************************************************************************)
MinKeyBits == 16

DefaultPublicExponent == 65537

MaxKeyBits == 16

MaxPublicExponent == 7

MaxPlaintext == 3

MaxCofactor == 2

PublicExponents == (2..MaxPublicExponent) \cup {DefaultPublicExponent}

\* the primes p with p.bit_length() == bits
PrimesOfBits(bits) == {p \in Pow(2, bits - 1)..(Pow(2, bits) - 1) : IsPrime(p)}

\* messages offered to encrypt and sign: the smallest, multiples of each
\* prime, the largest, and n itself (out of range)
Messages(key) ==
    (0..MaxPlaintext)
        \cup {j * key.p : j \in 1..MaxCofactor}
        \cup {j * key.q : j \in 1..MaxCofactor}
        \cup {key.n - 1, key.n}

InitKeypair ==
    /\ fn = "generate_keypair"
    /\ \E bits \in (MinKeyBits - 1)..MaxKeyBits, e \in PublicExponents,
          ensure_distinct_primes \in BOOLEAN :
          args = [bits |-> bits, e |-> e, ensure_distinct_primes |-> ensure_distinct_primes]
    /\ loc = NoLocals
    /\ pc = "call"
    /\ ret = Pending

\* lines 63-84: the argument checks and one pass of the loop; a pass that
\* hits `continue` leaves the call where it was
GenerateKeypair ==
    /\ fn = "generate_keypair"
    /\ pc = "call"
    /\ IF args.bits < MinKeyBits
       THEN /\ ret' = ValueError("bits must be at least 16", <<>>)
            /\ pc' = "done"
            /\ loc' = loc
       ELSE IF args.e < 3 \/ Mod(args.e, 2) = 0
       THEN /\ ret' = ValueError("e must be an odd integer >= 3", <<>>)
            /\ pc' = "done"
            /\ loc' = loc
       ELSE LET half == FloorDiv(args.bits, 2)
            IN  \E p \in PrimesOfBits(half), q \in PrimesOfBits(half) :
                  LET n   == p * q
                      phi == (p - 1) * (q - 1)
                  IN  IF (args.ensure_distinct_primes /\ p = q) \/ gcd(args.e, phi) # 1
                      THEN UNCHANGED <<loc, pc, ret>>
                      ELSE /\ loc' = [key |-> RSAKey(n, args.e, modinv(args.e, phi).val[1], p, q),
                                      m |-> 0, c |-> 0]
                           /\ pc' = "key"
                           /\ ret' = ret
    /\ UNCHANGED <<fn, args>>

Encrypt ==
    /\ pc = "key"
    /\ \E m \in Messages(loc.key) :
          LET c == encrypt(m, loc.key)
          IN  IF c.kind = "value"
              THEN /\ loc' = [loc EXCEPT !.m = m, !.c = c.val[1]]
                   /\ pc' = "encrypted"
                   /\ ret' = ret
              ELSE /\ loc' = [loc EXCEPT !.m = m]
                   /\ pc' = "done"
                   /\ ret' = c
    /\ fn' = "encrypt"
    /\ UNCHANGED args

Decrypt ==
    /\ pc = "encrypted"
    /\ ret' = decrypt(loc.c, loc.key)
    /\ pc' = "done"
    /\ fn' = "decrypt"
    /\ UNCHANGED <<args, loc>>

Sign ==
    /\ pc = "key"
    /\ \E m \in Messages(loc.key) :
          LET sig == sign(m, loc.key)
          IN  IF sig.kind = "value"
              THEN /\ loc' = [loc EXCEPT !.m = m, !.c = sig.val[1]]
                   /\ pc' = "signed"
                   /\ ret' = ret
              ELSE /\ loc' = [loc EXCEPT !.m = m]
                   /\ pc' = "done"
                   /\ ret' = sig
    /\ fn' = "sign"
    /\ UNCHANGED args

Verify ==
    /\ pc = "signed"
    /\ ret' = verify(loc.c, loc.key)
    /\ pc' = "done"
    /\ fn' = "verify"
    /\ UNCHANGED <<args, loc>>

NextKeypair == GenerateKeypair \/ Encrypt \/ Decrypt \/ Sign \/ Verify

SpecKeypair == InitKeypair /\ [][NextKeypair]_vars

\* C16: for every key generate_keypair returns (ensure_distinct_primes True
\* or False) and every m in [0, n), decrypt(encrypt(m)) = m and
\* verify(sign(m)) = m.
C16_RoundTrip ==
    (pc = "done" /\ fn \in {"decrypt", "verify"}) => ret = Value(loc.m)

\* what holds instead: the round trips return m under every key with p # q
C16_RoundTripDistinctPrimes ==
    (pc = "done" /\ fn \in {"decrypt", "verify"} /\ loc.key.p # loc.key.q)
        => ret = Value(loc.m)

OddComposite(n) == n > 1 /\ n % 2 = 1 /\ ~IsPrime(n)

\* x -> (x*x + c) % n applied k times
RECURSIVE Orbit(_, _, _, _)
Orbit(x, c, n, k) == IF k = 0 THEN x ELSE Orbit((x * x + c) % n, c, n, k - 1)

\* d after j steps of a pass with constant c from x = y = 2, d = 1
PassGcd(c, n, j) ==
    IF j = 0 THEN 1
    ELSE GreatestCommonDivisor(Orbit(2, c, n, j) - Orbit(2, c, n, 2 * j), n)

\* the constant of pass number k: 1 for the first pass, k for the k-th retry
PassConstant(k) == IF k = 0 THEN 1 ELSE k

\* the number of steps the pass with constant c makes under the budget
RECURSIVE PassLength(_, _, _, _)
PassLength(c, n, budget, j) ==
    IF PassGcd(c, n, j) = 1 /\ j < budget THEN PassLength(c, n, budget, j + 1) ELSE j

\* the pass with constant c ends without a proper factor
PassFails(c, n, budget) ==
    LET d == PassGcd(c, n, PassLength(c, n, budget, 0)) IN d = 1 \/ d = n

C18_Passes ==
    (OddComposite(args.n) /\ pc \in {"search", "done"}) =>
        /\ loc.pass \in 0..19
        /\ loc.c = PassConstant(loc.pass)
        /\ loc.steps <= PassLength(loc.c, args.n, args.max_steps, 0)
        /\ loc.x = Orbit(2, loc.c, args.n, loc.steps)
        /\ loc.y = Orbit(2, loc.c, args.n, 2 * loc.steps)
        /\ loc.d = PassGcd(loc.c, args.n, loc.steps)
        /\ \A k \in 0..(loc.pass - 1) : PassFails(PassConstant(k), args.n, args.max_steps)
        /\ loc.total <= loc.pass * args.max_steps + loc.steps
        /\ loc.total <= 20 * args.max_steps
        /\ pc = "done" =>
              IF loc.round >= DefaultRounds
              THEN \* the pre-check took n for a prime: no pass was run
                   ret = None /\ loc.pass = 0 /\ loc.total = 0
              ELSE /\ loc.steps = PassLength(loc.c, args.n, args.max_steps, 0)
                   /\ \/ ret = Value(loc.d) /\ 1 < loc.d /\ loc.d < args.n
                      \/ /\ ret = None
                         /\ loc.pass = 19
                         /\ PassFails(loc.c, args.n, args.max_steps)

\* what is left of the call, as a natural number: the rounds of the
\* pre-check not yet made, the passes not yet started and the steps the
\* running pass may still make
RhoRank ==
    LET search == 20 * (args.max_steps + 1)
    IN  CASE pc = "done"     -> 0
          [] pc = "search"   -> 1 + (19 - loc.pass) * (args.max_steps + 1)
                                  + (args.max_steps - loc.steps)
          [] pc = "precheck" -> search + 1 + (DefaultRounds - loc.round)
          [] pc = "call"     -> search + 2 + DefaultRounds

\* a call that has not returned can take a step
RhoNotStuck ==
    /\ pc \in {"call", "precheck", "search", "done"}
    /\ pc = "precheck" =>
          \/ loc.round >= DefaultRounds
          \/ PassingBases(args.n) # {}
          \/ PassingBases(args.n) # 2..(args.n - 2)

====
